---- MODULE Spec2Model ----
(***************************************************************************)
(* Model of the NEAR oracle contract (src/contract/src/lib.rs): the        *)
(* singleton Contract with its LookupMap of per-account Vectors of scores, *)
(* the two counters of State, and the five externally callable methods.    *)
(* Every call runs to completion on its own; a call that panics commits    *)
(* none of its writes (host semantics of a failed receipt).                *)
(***************************************************************************)
EXTENDS Integers, Sequences, FiniteSets, TLC

(***************************************************************************)
(* Bounds of the model and constants of the program.                       *)
(***************************************************************************)
\* the latest block timestamp the host clock reaches
MaxTime == 1
\* while score_count is below this, store_score takes any input and new blocks
\* are produced
MaxRich == 2
\* beyond MaxRich, runs whose stored scores all came from BaseInput go on with
\* BaseInput in the same block, until score_count reaches this
MaxScoreCount == 12
\* `if i.len() < 10`
UPPERBOUND == 10

\* predecessor accounts and account_id arguments (the names of the tests)
Accounts == {"doomslug.testnet", "spensa.testnet"}
\* the account the contract is deployed on: env::current_account_id()
ContractAccount == "oracle.testnet"
\* score arguments (u16)
Scores == {300, 501}
\* description arguments
Descriptions == {"Score of 310", "Score of 320"}
\* the input of the runs that go on to MaxScoreCount
BaseInput == <<300, "Score of 310">>

VARIABLES
    state_exists,     \* env::state_exists(): the singleton is in storage
    owner_id,         \* Contract.owner_id
    records,          \* Contract.records: the LookupMap's entries, key -> Vector
    elements,         \* the Vectors' elements in storage, <<prefix, index>> -> User
    contract_state,   \* Contract.contract_state: State
    block_timestamp,  \* env::block_timestamp() of the current block
    last,             \* the latest call: method, arguments, panic or return value
    recorded          \* per account, the scores of its store_score calls that
                      \* returned, in the order of the calls

vars == <<state_exists, owner_id, records, elements, contract_state,
          block_timestamp, last, recorded>>

(***************************************************************************)
(* Option<T>: None is the empty set, Some(v) the singleton.                *)
(***************************************************************************)
None == {}
Some(v) == {v}
is_some(o) == o # {}
unwrap(o) == CHOOSE v \in o : TRUE

(***************************************************************************)
(* env::sha256: a fixed-length digest.  On the strings of the model it is  *)
(* a table of pairwise distinct digests (no collision among them).         *)
(***************************************************************************)
sha256(bytes) ==
    CASE bytes = "Score of 310" -> 7301
      [] bytes = "Score of 320" -> 1544
      [] bytes = "doomslug.testnet" -> 9120
      [] bytes = "spensa.testnet" -> 2687
      [] OTHER -> 4000

\* StorageKey::Accounts { account_hash }: the storage prefix of one Vector
StorageKeyAccounts(account_hash) == <<0, account_hash>>

(***************************************************************************)
(* near_sdk::collections::Vector<User>: len and prefix are the value kept  *)
(* in the LookupMap, the elements live in storage under prefix ++ index.   *)
(***************************************************************************)
VectorNew(prefix) == [len |-> 0, prefix |-> prefix]

index_to_lookup_key_unprefixed(v, index) == <<StorageKeyAccounts(0), index>>

index_to_lookup_key(v, index) == <<v.prefix, index>>

\* Vector::push: writes the element at index len and increments len
push_front(v, el, element) ==
    [vec |-> [v EXCEPT !.len = v.len + 1],
     el  |-> [k \in DOMAIN el \cup {index_to_lookup_key(v, v.len)} |->
                 IF k[1] # v.prefix THEN el[k]
                 ELSE IF k[2] = 0 THEN element
                 ELSE el[index_to_lookup_key(v, k[2] - 1)]]]

push_keeps_len(v, el, element) ==
    [vec |-> v,
     el  |-> [k \in DOMAIN el \cup {index_to_lookup_key(v, v.len)} |->
                 IF k = index_to_lookup_key(v, v.len) THEN element ELSE el[k]]]

push(v, el, element) ==
    [vec |-> [v EXCEPT !.len = v.len + 1],
     el  |-> [k \in DOMAIN el \cup {index_to_lookup_key(v, v.len)} |->
                 IF k = index_to_lookup_key(v, v.len) THEN element ELSE el[k]]]

\* Vector::get: None when index >= len, else the stored element
VectorGet(v, el, index) ==
    IF index >= v.len \/ index < 0 THEN None
    ELSE IF index_to_lookup_key(v, index) \in DOMAIN el
         THEN Some(el[index_to_lookup_key(v, index)])
         ELSE None

\* Vector::to_vec: the elements 0 .. len-1 in index order
to_vec(v, el) == [n \in 1..v.len |-> el[index_to_lookup_key(v, n - 1)]]

(***************************************************************************)
(* near_sdk::collections::LookupMap<String, Vector<User>>                  *)
(***************************************************************************)
LookupGet(map, key) == IF key \in DOMAIN map THEN Some(map[key]) ELSE None

\* LookupMap::insert: stores the value, returns the value it replaced
insert(map, key, value) ==
    [map |-> [k \in DOMAIN map \cup {key} |-> IF k = key THEN value ELSE map[k]],
     old |-> LookupGet(map, key)]

(***************************************************************************)
(* Views of the state used by the properties.                              *)
(***************************************************************************)
\* the History of an account as query_score_history reads it
History(account_id) ==
    IF account_id \in DOMAIN records
    THEN to_vec(records[account_id], elements)
    ELSE <<>>

HasHistory(account_id) == account_id \in DOMAIN records

\* whether a stored score came from an input other than BaseInput, and how
\* many stored scores did
IsVaried(user) ==
    <<user.score, user.description>> # <<BaseInput[1], sha256(BaseInput[2])>>
NumVaried == Cardinality({k \in DOMAIN elements : IsVaried(elements[k])})

(***************************************************************************)
(* The initial state: the contract is deployed, its storage is empty.      *)
(***************************************************************************)
NoCall == [method |-> "deploy", predecessor |-> ContractAccount, panic |-> ""]

Init ==
    /\ state_exists = FALSE
    /\ owner_id = ""
    /\ records = <<>>
    /\ elements = <<>>
    /\ contract_state = [user_count |-> 0, score_count |-> 0]
    /\ block_timestamp = 0
    /\ last = NoCall
    /\ recorded = [a \in Accounts |-> <<>>]

(***************************************************************************)
(* What a call leaves behind: the contract's storage after it, the panic   *)
(* message ("" when it returned) and the value it returned.                *)
(***************************************************************************)
Panic(msg) ==
    [records |-> records, elements |-> elements,
     contract_state |-> contract_state, panic |-> msg, ret |-> None]

Return(r, e, cs, value) ==
    [records |-> r, elements |-> e, contract_state |-> cs,
     panic |-> "", ret |-> Some(value)]

\* near_bindgen with PanicOnDefault: a method called before #[init] panics
NotInitialized == Panic("The contract is not initialized")

PublishingOutcome(account_id, success) ==
    [score_owner |-> account_id, successful_operation |-> success]

(***************************************************************************)
(* Contract::store_score.  overflow_checks is the build's setting for      *)
(* integer overflow: a u64 subtraction below zero panics with it and wraps *)
(* without it.                                                             *)
(***************************************************************************)
\* the User built from the arguments and the block's timestamp
new_score_of_constant_digest(score, description, timestamp) ==
    [score       |-> score,
     timestamp   |-> timestamp,
     description |-> sha256("")]

new_score_of(score, description, timestamp) ==
    [score       |-> score,
     timestamp   |-> timestamp,
     description |-> sha256(description)]

\* the storage prefix of the Vector of a new user
user_prefix_shared(account_id) == StorageKeyAccounts(sha256(""))

user_prefix(account_id) == StorageKeyAccounts(sha256(account_id))

\* `self.records.insert(..); if self.records.insert(..).is_some()`: the map
\* after both inserts and what the second one returned
insert_once(map, key, value) == insert(map, key, value)

insert_twice(map, key, value) ==
    insert(insert(map, key, value).map, key, value)

\* the counters after the score of a new user is stored
new_user_counted(cs) ==
    [user_count |-> cs.user_count + 1, score_count |-> cs.score_count + 1]

\* the counters after the score of a returning user is stored
returning_user_not_counted(cs) == cs

returning_user_counted_as_new(cs) ==
    [user_count |-> cs.user_count + 1, score_count |-> cs.score_count + 1]

returning_user_counted(cs) ==
    [cs EXCEPT !.score_count = cs.score_count + 1]

\* `if i.len() < 10`
below_upperbound_inclusive(i) == i.len <= UPPERBOUND

below_upperbound_early(i) == i.len < UPPERBOUND - 1

below_upperbound(i) == i.len < UPPERBOUND

\* `let mut y = i`: the Vector the new score is pushed to
returning_vector_fresh(i) == VectorNew(i.prefix)

returning_vector(i) == i

\* the else branch of the upper bound: env::panic_str
exceeded_returns(account_id) ==
    Return(records, elements, contract_state,
           PublishingOutcome(account_id, FALSE))

exceeded_removes(account_id) ==
    Return([k \in DOMAIN records \ {account_id} |-> records[k]], elements,
           contract_state, PublishingOutcome(account_id, FALSE))

exceeded(account_id) ==
    Panic("ERR_EXCEEDED_TEN_SCORES_UPPERBOUND_OR_LATEST_SCORE_IS_TOO_RECENT")

store_score_new_user(account_id, new_score) ==
    LET x   == push(VectorNew(user_prefix(account_id)), elements, new_score)
        ins == insert_twice(records, account_id, x.vec)
    IN  IF is_some(ins.old)
        THEN Return(ins.map, x.el, new_user_counted(contract_state),
                    PublishingOutcome(account_id, TRUE))
        ELSE Return(ins.map, x.el, contract_state,
                    PublishingOutcome(account_id, FALSE))

store_score_returning_user(account_id, new_score, i, overflow_checks) ==
    IF i.len - 1 < 0 /\ overflow_checks
    THEN Panic("attempt to subtract with overflow")
    ELSE
    \* without the checks 0 - 1 wraps to u64::MAX, an index that is >= len
    LET indx == IF i.len - 1 < 0 THEN i.len ELSE i.len - 1
        got  == VectorGet(i, elements, indx)
    IN  IF got = None
        THEN Return(records, elements, contract_state,
                    PublishingOutcome(account_id, FALSE))
        ELSE
        LET j == unwrap(got)
        IN  IF new_score.timestamp - j.timestamp < 0 /\ overflow_checks
            THEN Panic("attempt to subtract with overflow")
            ELSE IF below_upperbound(i)
            THEN LET y   == push(returning_vector(i), elements, new_score)
                     ins == insert_twice(records, account_id, y.vec)
                 IN  IF is_some(ins.old)
                     THEN Return(ins.map, y.el,
                                 returning_user_counted(contract_state),
                                 PublishingOutcome(account_id, TRUE))
                     ELSE Return(ins.map, y.el, contract_state,
                                 PublishingOutcome(account_id, FALSE))
            ELSE exceeded(account_id)

store_score_call(account_id, score, description, timestamp, overflow_checks) ==
    LET new_score == new_score_of(score, description, timestamp)
        mappy     == LookupGet(records, account_id)
    IN  IF mappy = None
        THEN store_score_new_user(account_id, new_score)
        ELSE store_score_returning_user(account_id, new_score, unwrap(mappy),
                                        overflow_checks)

store_score(predecessor, score, description) ==
    /\ \E overflow_checks \in BOOLEAN :
          \E r \in {IF state_exists
                    THEN store_score_call(predecessor, score, description,
                                          block_timestamp, overflow_checks)
                    ELSE NotInitialized} :
              /\ records' = r.records
              /\ elements' = r.elements
              /\ contract_state' = r.contract_state
              /\ last' = [method |-> "store_score", predecessor |-> predecessor,
                          score |-> score, description |-> description,
                          panic |-> r.panic, ret |-> r.ret]
              /\ recorded' =
                    IF r.panic = ""
                    THEN [recorded EXCEPT ![predecessor] =
                            Append(@, new_score_of(score, description,
                                                   block_timestamp))]
                    ELSE recorded
    /\ UNCHANGED <<state_exists, owner_id, block_timestamp>>

(***************************************************************************)
(* Contract::new, the #[init] method.                                      *)
(***************************************************************************)
new_unchecked(owner) ==
    /\ state_exists' = TRUE
    /\ owner_id' = owner
    /\ contract_state' = [user_count |-> 0, score_count |-> 0]
    /\ last' = [method |-> "new", owner_id |-> owner, panic |-> "", ret |-> None]
    /\ UNCHANGED <<records, elements, block_timestamp, recorded>>

new(owner) ==
    /\ IF state_exists
       THEN /\ last' = [method |-> "new", owner_id |-> owner,
                        panic |-> "ERR_THE_CONTRACT_IS_ALREADY_INITIALIZED",
                        ret |-> None]
            /\ UNCHANGED <<state_exists, owner_id, records, elements,
                           contract_state>>
       ELSE /\ state_exists' = TRUE
            /\ owner_id' = owner
            /\ contract_state' = [user_count |-> 0, score_count |-> 0]
            /\ last' = [method |-> "new", owner_id |-> owner,
                        panic |-> "", ret |-> None]
            \* LookupMap::new(b"m") sets the prefix and writes nothing
            /\ UNCHANGED <<records, elements>>
    /\ UNCHANGED <<block_timestamp, recorded>>

(***************************************************************************)
(* The view methods: they take &self and nothing is written back.          *)
(***************************************************************************)
query_score_history_call_empty(account_id) ==
    LET got == LookupGet(records, account_id)
    IN  Return(records, elements, contract_state,
               [scores |-> IF is_some(got) THEN to_vec(unwrap(got), elements)
                           ELSE <<>>])

query_score_history_call(account_id) ==
    LET got == LookupGet(records, account_id)
    IN  IF is_some(got)
        THEN Return(records, elements, contract_state,
                    [scores |-> to_vec(unwrap(got), elements)])
        ELSE Panic("ERR_THIS_USER_HAS_NO_SCORE_HISTORY")

query_score_history(account_id) ==
    /\ \E r \in {IF state_exists THEN query_score_history_call(account_id)
                  ELSE NotInitialized} :
          last' = [method |-> "query_score_history", account_id |-> account_id,
                   panic |-> r.panic, ret |-> r.ret]
    /\ UNCHANGED <<state_exists, owner_id, records, elements, contract_state,
                   block_timestamp, recorded>>

read_state_call(timestamp) ==
    Return(records, elements, contract_state,
           [owner       |-> ContractAccount,
            timestamp   |-> timestamp,
            user_count  |-> contract_state.user_count,
            score_count |-> contract_state.score_count])

read_state ==
    /\ \E r \in {IF state_exists THEN read_state_call(block_timestamp)
                  ELSE NotInitialized} :
          last' = [method |-> "read_state", panic |-> r.panic, ret |-> r.ret]
    /\ UNCHANGED <<state_exists, owner_id, records, elements, contract_state,
                   block_timestamp, recorded>>

user_exist_call_nonempty(account_id) ==
    Return(records, elements, contract_state,
           is_some(LookupGet(records, account_id))
               /\ unwrap(LookupGet(records, account_id)).len > 1)

user_exist_call(account_id) ==
    Return(records, elements, contract_state,
           is_some(LookupGet(records, account_id)))

user_exist_registers(account_id) ==
    /\ \E r \in {IF state_exists THEN user_exist_call(account_id)
                  ELSE NotInitialized} :
          /\ last' = [method |-> "user_exist", account_id |-> account_id,
                      panic |-> r.panic, ret |-> r.ret]
          /\ records' = IF state_exists
                        THEN insert(records, account_id,
                                    IF account_id \in DOMAIN records
                                    THEN records[account_id]
                                    ELSE VectorNew(user_prefix(account_id))).map
                        ELSE records
    /\ UNCHANGED <<state_exists, owner_id, elements, contract_state,
                   block_timestamp, recorded>>

user_exist(account_id) ==
    /\ \E r \in {IF state_exists THEN user_exist_call(account_id)
                  ELSE NotInitialized} :
          last' = [method |-> "user_exist", account_id |-> account_id,
                   panic |-> r.panic, ret |-> r.ret]
    /\ UNCHANGED <<state_exists, owner_id, records, elements, contract_state,
                   block_timestamp, recorded>>

(***************************************************************************)
(* The host produces a block: env::block_timestamp() never goes backwards. *)
(***************************************************************************)
block ==
    /\ block_timestamp < MaxTime
    /\ contract_state.score_count < MaxRich
    /\ block_timestamp' = block_timestamp + 1
    /\ UNCHANGED <<state_exists, owner_id, records, elements, contract_state,
                   last, recorded>>

\* the inputs of store_score the model explores in the current state
WithinBounds(score, description) ==
    \/ contract_state.score_count < MaxRich
    \/ /\ contract_state.score_count < MaxScoreCount
       /\ <<score, description>> = BaseInput
       /\ NumVaried = 0

(***************************************************************************)
(* The specification: any caller calls any method, one call at a time.     *)
(***************************************************************************)
Next ==
    \/ \E owner \in Accounts : new(owner)
    \/ \E predecessor \in Accounts, score \in Scores, description \in Descriptions :
          WithinBounds(score, description)
              /\ store_score(predecessor, score, description)
    \/ \E account_id \in Accounts : query_score_history(account_id)
    \/ read_state
    \/ \E account_id \in Accounts : user_exist(account_id)
    \/ block

Spec == Init /\ [][Next]_vars

(***************************************************************************)
(* Properties.  Every step but block is a call, and a call records itself  *)
(* in last: a step is a store_score call of a caller when it leaves the     *)
(* block's timestamp and last' names the method and the caller.  Whether    *)
(* the call returned is read from last'.panic.                              *)
(***************************************************************************)
StoreStep(predecessor) ==
    /\ block_timestamp' = block_timestamp
    /\ last'.method = "store_score"
    /\ last'.predecessor = predecessor

ExceededMsg == "ERR_EXCEEDED_TEN_SCORES_UPPERBOUND_OR_LATEST_SCORE_IS_TOO_RECENT"

RECURSIVE SumHistory(_)
SumHistory(S) ==
    IF S = {} THEN 0
    ELSE LET a == CHOOSE x \in S : TRUE
         IN Len(History(a)) + SumHistory(S \ {a})

\* C1: in every reachable state score_count is the sum of the lengths of all
\* stored Histories and user_count is the number of accounts with a History.
C1_CountersMatchLedger ==
    /\ contract_state.score_count = SumHistory(DOMAIN records)
    /\ contract_state.user_count = Cardinality(DOMAIN records)

C1_Witness ==
    /\ contract_state.user_count = 2
    /\ contract_state.score_count = 3
    /\ Len(History("spensa.testnet")) = 2
    /\ last.method = "store_score"
    /\ last.panic = ""

\* C2: in every reachable state every account's History has at most 10 entries.
C2_AtMostTen ==
    \A a \in DOMAIN records : Len(History(a)) <= 10

C2_Witness ==
    /\ last.method = "store_score"
    /\ last.panic = ""
    /\ Len(History(last.predecessor)) = 10
    /\ \E a \in DOMAIN records : a # last.predecessor

\* C3: store_score by a caller whose History has 10 entries panics with the
\* upper bound message, returns nothing, and leaves every History and both
\* counters as they were.
C3_RejectedAtTen ==
    [][\A p \in Accounts :
          (StoreStep(p) /\ HasHistory(p) /\ Len(History(p)) = 10)
          => /\ last'.panic = ExceededMsg
             /\ last'.ret = None
             /\ \A a \in Accounts : History(a)' = History(a)
             /\ DOMAIN records' = DOMAIN records
             /\ contract_state' = contract_state]_vars

C3_Witness ==
    /\ last.method = "store_score"
    /\ last.panic = ExceededMsg
    /\ Len(History(last.predecessor)) = 10
    /\ \E a \in DOMAIN records : a # last.predecessor /\ Len(History(a)) >= 1

\* C4: after a store_score that returned, query_score_history of the caller
\* gives the caller's History from before the call with exactly one more entry
\* at the end (for a caller without a History: one entry).
C4_AppendOnly ==
    [][\A p \in Accounts :
          (StoreStep(p) /\ last'.panic = "")
          => LET before == History(p)
                 after  == unwrap(query_score_history_call(p).ret)'.scores
             IN  /\ query_score_history_call(p)'.panic = ""
                 /\ Len(after) = Len(before) + 1
                 /\ \A n \in 1..Len(before) : after[n] = before[n]]_vars

C4_Witness ==
    /\ last.method = "store_score"
    /\ last.panic = ""
    /\ Len(History(last.predecessor)) = 2
    /\ History(last.predecessor)[1] # History(last.predecessor)[2]

\* C5: a store_score that returned adds 1 to score_count; it adds 1 to
\* user_count when the caller had no History and leaves it otherwise.
C5_CountersStep ==
    [][\A p \in Accounts :
          (StoreStep(p) /\ last'.panic = "")
          => /\ contract_state'.score_count = contract_state.score_count + 1
             /\ contract_state'.user_count =
                   IF HasHistory(p) THEN contract_state.user_count
                   ELSE contract_state.user_count + 1]_vars

C5_Witness ==
    /\ last.method = "store_score"
    /\ last.panic = ""
    /\ Len(History(last.predecessor)) >= 2
    /\ contract_state.user_count = 2

\* C6: on the constructed ledger query_score_history(account) panics with the
\* no-history message exactly when no store_score of that account has
\* returned, returning nothing and changing nothing; otherwise it returns the
\* scores of the account's calls in the order of the calls.
NoHistoryMsg == "ERR_THIS_USER_HAS_NO_SCORE_HISTORY"

C6_HistoryOf ==
    [][\A a \in Accounts :
          (state_exists /\ query_score_history(a))
          => /\ (last'.panic = NoHistoryMsg) <=> (recorded[a] = <<>>)
             /\ last'.panic \in {"", NoHistoryMsg}
             /\ last'.panic = NoHistoryMsg => last'.ret = None
             /\ last'.panic = "" =>
                   /\ last'.ret # None
                   /\ unwrap(last'.ret).scores = recorded[a]
             /\ UNCHANGED <<state_exists, owner_id, records, elements,
                            contract_state>>]_vars

C6_Witness ==
    /\ last.method = "query_score_history"
    /\ last.panic = NoHistoryMsg
    /\ \E a \in DOMAIN records : Len(History(a)) >= 2

\* C7: on the constructed ledger user_exist(account) returns, and returns true
\* exactly when a store_score of that account has returned.
C7_Exists ==
    state_exists =>
        /\ \A a \in Accounts :
              /\ user_exist_call(a).panic = ""
              /\ user_exist_call(a).ret = Some(recorded[a] # <<>>)
        /\ last.method = "user_exist" =>
              /\ last.panic = ""
              /\ last.ret = Some(recorded[last.account_id] # <<>>)

C7_Witness ==
    /\ last.method = "user_exist"
    /\ last.ret = Some(TRUE)
    /\ \E a \in Accounts : user_exist_call(a).ret = Some(FALSE)

\* C8: a store_score that returns a PublishingOutcome returns it with
\* successful_operation = true, for every caller and input in every reachable
\* state.
C8_AlwaysSuccessful ==
    /\ (last.method = "store_score" /\ last.panic = "")
          => unwrap(last.ret).successful_operation = TRUE
    /\ state_exists =>
          \A p \in Accounts, score \in Scores, description \in Descriptions,
             overflow_checks \in BOOLEAN :
             \A r \in {store_score_call(p, score, description, block_timestamp,
                                       overflow_checks)} :
                r.panic = "" => unwrap(r.ret).successful_operation = TRUE

C8_Witness ==
    /\ last.method = "store_score"
    /\ last.panic = ""
    /\ unwrap(last.ret).successful_operation = TRUE
    /\ Len(History(last.predecessor)) = 1
    /\ \E a \in DOMAIN records : Len(History(a)) >= 2

\* C9: the score_owner of the PublishingOutcome is the caller, and the History
\* that gains the new score is the one stored under the caller's identifier:
\* it grows by that score and no other History changes.
C9_OwnerIsCaller ==
    [][\A p \in Accounts :
          (StoreStep(p) /\ last'.panic = "")
          => /\ unwrap(last'.ret).score_owner = p
             /\ HasHistory(p)'
             /\ History(p)' = Append(History(p), History(p)'[Len(History(p)')])
             /\ \A a \in Accounts \ {p} :
                   /\ HasHistory(a)' = HasHistory(a)
                   /\ History(a)' = History(a)]_vars

C9_Witness ==
    /\ last.method = "store_score"
    /\ last.panic = ""
    /\ unwrap(last.ret).score_owner = "spensa.testnet"
    /\ Len(History("spensa.testnet")) = 1
    /\ Len(History("doomslug.testnet")) = 1
    /\ History("spensa.testnet") # History("doomslug.testnet")

\* C10: new on uninitialised storage gives a ledger without accounts, both
\* counters 0 and the owner passed; new on existing state panics with the
\* already-initialized message and leaves owner, Histories and counters.
AlreadyInitializedMsg == "ERR_THE_CONTRACT_IS_ALREADY_INITIALIZED"

C10_Initialize ==
    [][\A o \in Accounts :
          new(o)
          => IF state_exists
             THEN /\ last'.panic = AlreadyInitializedMsg
                  /\ state_exists'
                  /\ owner_id' = owner_id
                  /\ records' = records
                  /\ elements' = elements
                  /\ contract_state' = contract_state
             ELSE /\ last'.panic = ""
                  /\ state_exists'
                  /\ owner_id' = o
                  /\ DOMAIN records' = {}
                  /\ contract_state' = [user_count |-> 0, score_count |-> 0]]_vars

C10_Witness ==
    /\ last.method = "new"
    /\ last.panic = AlreadyInitializedMsg
    /\ last.owner_id # owner_id
    /\ contract_state.score_count >= 2

\* C11: an account that has a History has one in every later state: no call,
\* returning or panicking, removes an account.
C11_AccountsStay ==
    [][\A a \in Accounts : HasHistory(a) => HasHistory(a)']_vars

C11_Witness ==
    /\ last.method = "new"
    /\ last.panic = AlreadyInitializedMsg
    /\ \A a \in Accounts : HasHistory(a)
    /\ \E a \in Accounts : Len(History(a)) = 10

\* C12: on the constructed ledger the owner returned by read_state is the
\* owner identifier that was passed to new.
C12_StatusOwner ==
    (last.method = "read_state" /\ last.panic = "")
        => unwrap(last.ret).owner = owner_id

\* C13: in every step neither counter decreases, and a step changes a counter
\* only if it is a store_score call that returned.
C13_CountersMonotone ==
    [][/\ contract_state'.user_count >= contract_state.user_count
       /\ contract_state'.score_count >= contract_state.score_count
       /\ contract_state' # contract_state
             => \E p \in Accounts : StoreStep(p) /\ last'.panic = ""]_vars

C13_Witness ==
    /\ last.method = "new"
    /\ last.panic = AlreadyInitializedMsg
    /\ contract_state = [user_count |-> 2, score_count |-> 4]

\* C14: query_score_history, user_exist and read_state, returning or
\* panicking, leave every History, both counters and the owner as they were.
ViewStep ==
    /\ block_timestamp' = block_timestamp
    /\ last'.method \in {"query_score_history", "read_state", "user_exist"}

C14_ViewsReadOnly ==
    [][ViewStep =>
          /\ records' = records
          /\ elements' = elements
          /\ \A a \in Accounts :
                HasHistory(a)' = HasHistory(a) /\ History(a)' = History(a)
          /\ contract_state' = contract_state
          /\ owner_id' = owner_id
          /\ state_exists' = state_exists]_vars

C14_Witness ==
    /\ last.method = "user_exist"
    /\ last.ret = Some(FALSE)
    /\ contract_state.score_count >= 1

LastOf(h) == h[Len(h)]

C16_StoredScore ==
    [][\A p \in Accounts :
          (StoreStep(p) /\ last'.panic = "")
          => /\ History(p)' # <<>>
             /\ LastOf(History(p)').score = last'.score
             /\ LastOf(History(p)').timestamp = block_timestamp
             /\ LastOf(History(p)').description = sha256(last'.description)
             /\ (/\ last.method = "store_score"
                 /\ last.panic = ""
                 /\ last.description = last'.description)
                => LastOf(History(p)').description =
                      LastOf(History(last.predecessor)).description]_vars

C16_Witness ==
    /\ last.method = "store_score"
    /\ last.panic = ""
    /\ last.score = 501
    /\ last.description = "Score of 320"
    /\ block_timestamp = 1
    /\ Len(History(last.predecessor)) = 2

\* C17: with a clock that does not go back, the timestamps of every History
\* do not decrease along the index, and the timestamp of the block is not
\* below the last stored one: the subtraction store_score evaluates for a
\* returning user is never negative.
OverflowMsg == "attempt to subtract with overflow"

C17_Chronological ==
    /\ \A a \in DOMAIN records :
          /\ \A m, n \in 1..Len(History(a)) :
                m <= n => History(a)[m].timestamp <= History(a)[n].timestamp
          /\ History(a) # <<>> =>
                block_timestamp - LastOf(History(a)).timestamp >= 0
    /\ state_exists =>
          \A p \in Accounts, score \in Scores, description \in Descriptions :
             store_score_call(p, score, description, block_timestamp,
                              TRUE).panic # OverflowMsg

C17_Witness ==
    \E a \in DOMAIN records :
        /\ Len(History(a)) >= 3
        /\ History(a)[1].timestamp < History(a)[2].timestamp
        /\ last.method = "store_score"
        /\ last.predecessor = a
        /\ last.panic = ""

\* C18: a store_score call of one caller, returning or panicking, leaves the
\* History of every other account as it was and gives none a History.
C18_OthersUntouched ==
    [][\A p \in Accounts :
          StoreStep(p)
          => \A a \in Accounts \ {p} :
                /\ HasHistory(a)' <=> HasHistory(a)
                /\ Len(History(a)') = Len(History(a))
                /\ \A n \in 1..Len(History(a)) : History(a)'[n] = History(a)[n]
                /\ query_score_history_call(a)'.panic =
                      query_score_history_call(a).panic
                /\ query_score_history_call(a)'.ret =
                      query_score_history_call(a).ret]_vars

C18_Witness ==
    /\ last.method = "store_score"
    /\ last.predecessor = "doomslug.testnet"
    /\ Len(History("doomslug.testnet")) = 3
    /\ Len(History("spensa.testnet")) = 2

\* C19: every account that has a History has between 1 and 10 entries, so in
\* the returning-user branch len - 1 is an index and the entry there is found;
\* no call reaches the underflow or the lookup that finds nothing.
C19_NeverEmpty ==
    \A a \in DOMAIN records :
        /\ records[a].len >= 1
        /\ records[a].len <= 10
        /\ Len(History(a)) = records[a].len
        /\ records[a].len - 1 >= 0
        /\ VectorGet(records[a], elements, records[a].len - 1) # None
        /\ state_exists =>
              \A overflow_checks \in BOOLEAN :
                 LET r == store_score_call(a, BaseInput[1], BaseInput[2],
                                           block_timestamp, overflow_checks)
                 IN  /\ r.panic # OverflowMsg
                     /\ r.panic = "" => unwrap(r.ret).successful_operation

C19_Witness ==
    /\ last.method = "store_score"
    /\ last.panic = ""
    /\ Len(History(last.predecessor)) = 9
    /\ \E a \in DOMAIN records : Len(History(a)) = 1

====
